---- MODULE Spec2Model ----
(***************************************************************************)
(* Model of src/app.py: a Flask application that re-encodes an uploaded    *)
(* image and keeps the result in a process-wide in-memory download cache   *)
(* (app.download_cache) for one download within a TTL.                     *)
(*                                                                         *)
(* The application is served by concurrent request threads (app.run is     *)
(* threaded).  Each thread runs one handler at a time; the handlers share  *)
(* app.download_cache and take no lock.  The interpreter makes each single *)
(* dict operation (pop, item assignment, one step of an iterator) atomic,  *)
(* and may switch threads between them.  The model has one action per such *)
(* step.  The dict is modelled as CPython keeps it: an insertion-ordered   *)
(* array of entries in which a removed key leaves an empty slot, walked by *)
(* an iterator that remembers the size of the dict, its position and the   *)
(* number of items it still expects.                                       *)
(*                                                                         *)
(* Specifications:                                                         *)
(*   Spec           the request threads over the shared cache              *)
(*   FairSpec       Spec with fair threads and requests that keep coming   *)
(*   SerialSpec     one request thread, uploads in every output format     *)
(*   TranscodeSpec  one compress_image call, lines 103-177 step by step    *)
(***************************************************************************)
EXTENDS Integers, Sequences, FiniteSets, TLC

\* ------------------------------------------------------------ configuration

DEFAULT_QUALITY == 40
MAX_QUALITY == 100
MIN_QUALITY == 1
MAX_CONTENT_LENGTH == 10485760
DOWNLOAD_CACHE_TTL_SECONDS == 300
ALLOWED_OUTPUT_FORMATS == {"JPEG", "PNG", "WEBP"}

\* ------------------------------------------------------------------ bounds

\* Number of times the clock advances in a run.
MaxTicks == 2
\* Number of entries stored in the cache over a run.
MaxInserts == 2

\* The request threads.
Workers == {"w1", "w2"}
\* The values uuid4().hex can return (a small part of the 128-bit space).
Ids == {"a", "b"}
\* The amounts by which the clock advances between two steps.
TickSteps == {DOWNLOAD_CACHE_TTL_SECONDS}

\* The detailed compress_image call: the integers a quality field carries
\* run from MIN_QUALITY - QualitySlack to MAX_QUALITY + QualitySlack, the
\* sizes of the upload and of the encoded image from 0 (1 for the encoded
\* image) to MaxBytes.
QualitySlack == 3

MaxBytes == 2

\* ---------------------------------------------------------------- requests

NoId == "-"

\* The multipart body of a POST /compress, as request.files and request.form
\* give it.  image is what Pillow makes of the uploaded bytes:
\*   valid        opens, verifies, reopens and saves
\*   unidentified Image.open raises UnidentifiedImageError
\*   corrupt      Image.open or verify raises another exception
\*   unopenable   the second Image.open raises
\*   unsavable    img.save raises
Upload(hasFile, filename, format, image, length) ==
    [hasFile |-> hasFile, filename |-> filename, format |-> format,
     image |-> image, length |-> length]

NoUpload == Upload(FALSE, "", "", "none", 0)

\* The format fields of the uploads that succeed ("" is an absent field,
\* which selects JPEG).
GoodFormats == {""}

\* One upload per way compress_image can turn a request down.
BadUploads ==
    {Upload(FALSE, "", "JPEG", "none", 2048),
     Upload(TRUE, "", "JPEG", "valid", 2048),
     Upload(TRUE, "in.png", "GIF", "valid", 2048),
     Upload(TRUE, "note.txt", "JPEG", "unidentified", 2048),
     Upload(TRUE, "in.png", "JPEG", "corrupt", 2048),
     Upload(TRUE, "in.png", "PNG", "unopenable", 2048),
     Upload(TRUE, "in.png", "WEBP", "unsavable", 2048),
     Upload(TRUE, "in.png", "JPEG", "valid", MAX_CONTENT_LENGTH + 1)}

Uploads == {Upload(TRUE, "in.png", f, "valid", 2048) : f \in GoodFormats} \cup BadUploads

\* A request: the route, the id in the path of a download, the body of an
\* upload.
Request(route, id, upload) == [route |-> route, id |-> id, upload |-> upload]

IndexRequest == Request("index", NoId, NoUpload)

CompressRequest(u) == Request("compress", NoId, u)

DownloadRequest(id) == Request("download", id, NoUpload)

\* The request of a thread that has not yet used anything of it.
NoRequest == Request("none", NoId, NoUpload)

\* ------------------------------------------------------------------- state

VARIABLES
    clock,      \* datetime.utcnow()
    ticks,      \* how many times the clock has advanced
    cache,      \* app.download_cache: the dict's array of entries
    pc,         \* per thread: where its handler stands
    req,        \* per thread: the request it is handling
    now,        \* per thread: `now` of _cleanup_expired_cache
    iter,       \* per thread: the dict iterator of the list comprehension
    expired,    \* per thread: the list `expired`, what is left of it to pop
    entry,      \* per thread: `entry` of download_image
    resp,       \* per thread: the response of the finished handler
    ids,        \* history: the ids the entries were stored under, in order
    delivered,  \* history: per insertion, how many responses carried it
    alone,      \* history, per thread: no other thread has run since its request began
    pre,        \* history, per thread: the cache contents when its request began (while alone)
    form,       \* one compress_image call in detail: what it reads of its request
    tpc,        \* one compress_image call in detail: the line it is about to run
    loc         \* one compress_image call in detail: its locals

\* The variables of the request threads, and those of the detailed
\* compress_image call (lines 103-177, which touch nothing shared).
tvars == <<form, tpc, loc>>

vars == <<clock, ticks, cache, pc, req, now, iter, expired, entry, resp,
          ids, delivered, alone, pre, form, tpc, loc>>

\* ------------------------------------------------- the dict (CPython's)

NoValue == [bytes |-> <<>>, mimetype |-> "", filename |-> "", expiry |-> 0]

\* A slot of the entries array.  ser, at and orig are history: the number of
\* the insertion that stored the value (0 in an empty slot), the time of that
\* insertion and the value as it was stored.
EmptySlot == [live |-> FALSE, key |-> NoId, val |-> NoValue, ser |-> 0, at |-> 0, orig |-> NoValue]

Slot(k, v, s, t) == [live |-> TRUE, key |-> k, val |-> v, ser |-> s, at |-> t, orig |-> v]

\* The live slots: what the dict holds.
Items(d) == {d[i] : i \in {j \in DOMAIN d : d[j].live}}

\* len(d), the dict's ma_used.
DictUsed(d) == Cardinality({j \in DOMAIN d : d[j].live})

\* A lookup that stops at the first entry of the dict, whatever its key.
DictIndexFirst(d, k) ==
    IF \E j \in DOMAIN d : d[j].live /\ d[j].key = k
    THEN CHOOSE j \in DOMAIN d : d[j].live /\ \A i \in DOMAIN d : d[i].live => j <= i
    ELSE 0

\* The index of key k's slot, 0 when the dict has no such key.
DictIndex(d, k) ==
    IF \E j \in DOMAIN d : d[j].live /\ d[j].key = k
    THEN CHOOSE j \in DOMAIN d : d[j].live /\ d[j].key = k
    ELSE 0

\* A lookup that reads the key and leaves it: d.get(k) for d.pop(k, None).
DictPopPeeks(d, k) == d

\* A pop that empties the dict when it finds the key.
DictPopClears(d, k) ==
    IF DictIndex(d, k) = 0 THEN d ELSE [j \in DOMAIN d |-> EmptySlot]

\* d.pop(k, None), the dict afterwards: a missing key leaves it as it is.
DictPop(d, k) ==
    IF DictIndex(d, k) = 0 THEN d ELSE [d EXCEPT ![DictIndex(d, k)] = EmptySlot]

\* d[k] = v: a key already there keeps its slot and takes the new value,
\* a new key is appended.
DictSet(d, k, v, s, t) ==
    IF DictIndex(d, k) = 0
    THEN Append(d, Slot(k, v, s, t))
    ELSE [d EXCEPT ![DictIndex(d, k)] = Slot(k, v, s, t)]

\* iter(d.items()): the size it was created at, the position it has reached,
\* the number of items it still expects.
NoIter == [used |-> 0, pos |-> 0, len |-> 0]

NewIter(d) == [used |-> DictUsed(d), pos |-> 0, len |-> DictUsed(d)]

\* The next live slot after the iterator's position, 0 when there is none.
NextLive(d, it) ==
    IF \E j \in DOMAIN d : j > it.pos /\ d[j].live
    THEN CHOOSE j \in DOMAIN d :
            /\ j > it.pos /\ d[j].live
            /\ \A i \in DOMAIN d : (i > it.pos /\ d[i].live) => j <= i
    ELSE 0

\* next(it) raises RuntimeError: the dict changed size, or holds an item the
\* iterator did not expect (its keys changed).
IterRaises(d, it) ==
    \/ it.used # DictUsed(d)
    \/ (NextLive(d, it) # 0 /\ it.len = 0)

\* --------------------------------------------------------------- helpers

\* str.upper() on the format names a request carries.
Upper(s) ==
    CASE s = "webp" -> "WEBP"
      [] s = "png" -> "PNG"
      [] s = "jpeg" -> "JPEG"
      [] s = "gif" -> "GIF"
      [] OTHER -> s

Lower(s) ==
    CASE s = "WEBP" -> "webp"
      [] s = "PNG" -> "png"
      [] s = "JPEG" -> "jpeg"
      [] s = "GIF" -> "gif"
      [] OTHER -> s

_safe_output_extension(fmt) ==
    CASE Upper(fmt) = "JPEG" -> "jpg"
      [] Upper(fmt) = "PNG" -> "png"
      [] Upper(fmt) = "WEBP" -> "webp"
      [] OTHER -> Lower(Upper(fmt))

\* filename = f"compressed.{ext}"
Filename(ext) ==
    CASE ext = "jpg" -> "compressed.jpg"
      [] ext = "png" -> "compressed.png"
      [] ext = "webp" -> "compressed.webp"
      [] OTHER -> "compressed"

\* mimetype = f"image/{ext if ext != 'jpg' else 'jpeg'}"
Mimetype(ext) ==
    CASE ext = "jpg" -> "image/jpeg"
      [] ext = "png" -> "image/png"
      [] ext = "webp" -> "image/webp"
      [] OTHER -> "image"

\* out_format = (request.form.get("format") or "JPEG").upper()
OutFormat(u) == Upper(IF u.format = "" THEN "JPEG" ELSE u.format)

\* The bytes img.save writes: a function of the image and the format.
Encode(image, fmt) == <<image, fmt>>

\* A sweep that writes `expiry < now`.
SweepExpiredStrict(expiry, t) == expiry < t

\* expiry <= now in _cleanup_expired_cache.
SweepExpired(expiry, t) == expiry <= t

\* A download_image without its expiry check.
PopExpiredNever(expiry, t) == FALSE

\* expiry <= datetime.utcnow() in download_image.
PopExpired(expiry, t) == expiry <= t

\* A compress_image that writes timedelta(minutes=DOWNLOAD_CACHE_TTL_SECONDS).
ExpiryFromNowInMinutes(t) == t + DOWNLOAD_CACHE_TTL_SECONDS * 60

\* expiry = datetime.utcnow() + timedelta(seconds=DOWNLOAD_CACHE_TTL_SECONDS)
ExpiryFromNow(t) == t + DOWNLOAD_CACHE_TTL_SECONDS

\* --------------------------------------------------------------- responses

\* at is the time the response is decided; ser and insertedAt are history: the
\* insertion a result or a file comes from, and its time.
NoResponse ==
    [kind |-> "none", flash |-> "", id |-> NoId, ser |-> 0, insertedAt |-> 0,
     bytes |-> <<>>, mimetype |-> "", filename |-> "", at |-> 0]

\* flash(message, "error") and redirect(url_for("index")).
Redirect(message, t) == [NoResponse EXCEPT !.kind = "redirect", !.flash = message, !.at = t]

\* The answer of download_image to a popped entry e that has expired.
Expired(e, t) ==
    [NoResponse EXCEPT !.kind = "redirect", !.flash = "Download has expired.",
                       !.ser = e.ser, !.insertedAt = e.at, !.at = t]

\* An exception no handler catches: Flask answers 500.
ServerError(message, t) == [NoResponse EXCEPT !.kind = "error500", !.flash = message, !.at = t]

\* render_template("index.html", result=None).
Page(t) == [NoResponse EXCEPT !.kind = "page", !.at = t]

\* render_template("index.html", result=result).
Result(id, s, filename, t) ==
    [NoResponse EXCEPT !.kind = "result", !.id = id, !.ser = s, !.insertedAt = t,
                       !.filename = filename, !.at = t]

\* send_file(BytesIO(compressed_bytes), mimetype, as_attachment, download_name).
File(e, t) ==
    [NoResponse EXCEPT !.kind = "file", !.ser = e.ser, !.insertedAt = e.at,
                       !.bytes = e.val.bytes, !.mimetype = e.val.mimetype,
                       !.filename = e.val.filename, !.at = t]

\* A compress_image without the Image.open / verify block.
CompressFailureSkipsVerify(u) ==
    CASE u.length > MAX_CONTENT_LENGTH -> "Uploaded file is too large. Max allowed size: 10 MB."
      [] ~u.hasFile -> "No file part in request."
      [] u.filename = "" -> "No file selected."
      [] OutFormat(u) \notin ALLOWED_OUTPUT_FORMATS -> "Unsupported output format selected."
      [] u.image = "unopenable" -> "Cannot open image after verification"
      [] u.image = "unsavable" -> "Error saving compressed image"
      [] OTHER -> ""

\* A compress_image without the ALLOWED_OUTPUT_FORMATS check.
CompressFailureAnyFormat(u) ==
    CASE u.length > MAX_CONTENT_LENGTH -> "Uploaded file is too large. Max allowed size: 10 MB."
      [] ~u.hasFile -> "No file part in request."
      [] u.filename = "" -> "No file selected."
      [] u.image = "unidentified" -> "Uploaded file is not a valid image."
      [] u.image = "corrupt" -> "Error validating image"
      [] u.image = "unopenable" -> "Cannot open image after verification"
      [] u.image = "unsavable" -> "Error saving compressed image"
      [] OTHER -> ""

\* What compress_image answers when it stops before the cache: the message
\* it flashes, "" when the request passes every check and is encoded.
CompressFailure(u) ==
    CASE u.length > MAX_CONTENT_LENGTH -> "Uploaded file is too large. Max allowed size: 10 MB."
      [] ~u.hasFile -> "No file part in request."
      [] u.filename = "" -> "No file selected."
      [] OutFormat(u) \notin ALLOWED_OUTPUT_FORMATS -> "Unsupported output format selected."
      [] u.image = "unidentified" -> "Uploaded file is not a valid image."
      [] u.image = "corrupt" -> "Error validating image"
      [] u.image = "unopenable" -> "Cannot open image after verification"
      [] u.image = "unsavable" -> "Error saving compressed image"
      [] OTHER -> ""

\* ------------------------------------------- compress_image, lines 103-177

\* request.form.get("quality"): the field is absent, holds text that int()
\* refuses ("", "high", "12.5"), or holds the decimal numeral of the integer
\* n.  long: the numeral has more than 4300 digits, the most int() converts
\* (sys.get_int_max_str_digits()); n then stands for an integer beyond the
\* range of the short numerals, on the same side of it.
NoField == [kind |-> "unread", n |-> 0, long |-> FALSE]

AbsentField == [kind |-> "absent", n |-> 0, long |-> FALSE]

TextField == [kind |-> "text", n |-> 0, long |-> FALSE]

IntField(n) == [kind |-> "int", n |-> n, long |-> FALSE]

LongField(n) == [kind |-> "int", n |-> n, long |-> TRUE]

QualityFields ==
    {AbsentField, TextField}
        \cup {IntField(n) : n \in (MIN_QUALITY - QualitySlack)..(MAX_QUALITY + QualitySlack)}
        \cup {LongField(MIN_QUALITY - QualitySlack - 1), LongField(MAX_QUALITY + QualitySlack + 1)}

\* The format fields a form carries: "" is an absent or empty field.
FormFormats == {"", "jpeg", "PNG", "webp", "GIF"}

\* img.mode of the opened upload, and the modes that carry an alpha channel.
Modes == {"1", "L", "LA", "P", "PA", "RGB", "RGBA", "CMYK"}

HasAlpha(mode) == mode \in {"LA", "PA", "RGBA"}

\* What the call has read of its request: the format and quality fields,
\* whether file.stream can seek, the size of the upload in bytes, the mode of
\* the image in it.
NoForm == [format |-> "-", quality |-> NoField, seekable |-> TRUE, size |-> 0, mode |-> "-"]

\* A quotient n / d of floats: dividing by zero raises ZeroDivisionError.
Ratio(n, d) == [ok |-> d # 0, num |-> n, den |-> d]

ZeroPercent == [ok |-> TRUE, num |-> 0, den |-> 1]

\* The locals of the call.  Sizes are kept in bytes, 1/1024 of the kB the
\* code holds; line is the line of the return that turned the request down.
NoLocals ==
    [out_format |-> "-", quality |-> 0, orig_size |-> 0, mode |-> "-",
     save_quality |-> 0, compress_level |-> -1, compressed_size |-> 0,
     alpha |-> FALSE, percent |-> ZeroPercent, flash |-> "", line |-> 0]

\* max(a, b), min(a, b)
Max(a, b) == IF a >= b THEN a ELSE b

Min(a, b) == IF a <= b THEN a ELSE b

\* quality = max(MIN_QUALITY, min(MAX_QUALITY, quality))
Clamp(q) == Max(MIN_QUALITY, Min(MAX_QUALITY, q))

\* int(request.form.get("quality", DEFAULT_QUALITY)), with the except clause:
\* an absent field gives the default; text, and a numeral longer than int()
\* converts, raise ValueError and give the default as well.
ParseQuality(field) ==
    CASE field.kind = "int" /\ ~field.long -> field.n
      [] field.kind = "absent" -> DEFAULT_QUALITY
      [] OTHER -> DEFAULT_QUALITY

\* round(n / d) of Python for n >= 0, d > 0: to the nearest integer, a tie to
\* the even one.
Round(n, d) ==
    IF 2 * (n % d) > d \/ (2 * (n % d) = d /\ (n \div d) % 2 = 1)
    THEN (n \div d) + 1
    ELSE n \div d

\* A level that grows with the quality.
CompressLevelOfQuality(q) == Max(0, Min(9, Round(9 * q, 100)))

\* compress_level = max(0, min(9, round((100 - quality) / (100 / 9))))
CompressLevel(q) == Max(0, Min(9, Round(9 * (100 - q), 100)))

\* A percent without the test of the original size.
CompressionPercentUnguarded(orig, compressed) == Ratio(100 * (orig - compressed), orig)

\* compression_percent of lines 172-177.
CompressionPercent(orig, compressed) ==
    IF orig > 0 THEN Ratio(100 * (orig - compressed), orig) ELSE ZeroPercent

\* -------------------------------------------------------------------- Init

Init ==
    /\ clock = 0
    /\ ticks = 0
    /\ cache = <<>>
    /\ pc = [w \in Workers |-> "idle"]
    /\ req = [w \in Workers |-> NoRequest]
    /\ now = [w \in Workers |-> 0]
    /\ iter = [w \in Workers |-> NoIter]
    /\ expired = [w \in Workers |-> <<>>]
    /\ entry = [w \in Workers |-> EmptySlot]
    /\ resp = [w \in Workers |-> NoResponse]
    /\ ids = <<>>
    /\ delivered = [s \in 1..MaxInserts |-> 0]
    /\ alone = [w \in Workers |-> TRUE]
    /\ pre = [w \in Workers |-> {}]
    /\ form = NoForm
    /\ tpc = "off"
    /\ loc = NoLocals

\* ----------------------------------------------------------------- actions
\* A handler is a sequence of steps; pc names the line of src/app.py the
\* thread is about to run.  The sweep reads nothing of the request, so the
\* model draws the request at the handler's first use of it (req is NoRequest
\* until then): the runs are those of a request fixed on arrival.

\* A finished handler's response leaves before any other step is taken:
\* Return changes only the thread's own variables, so no interleaving of the
\* accesses to the clock and the cache is lost.
Quiet == \A v \in Workers : pc[v] # "done"

\* A handler that leaves out its call of _cleanup_expired_cache().
StartSkipsSweep(w) ==
    /\ Quiet
    /\ pc[w] = "idle"
    /\ now' = [now EXCEPT ![w] = clock]
    /\ alone' = [v \in Workers |->
                   IF v = w THEN \A x \in Workers \ {w} : pc[x] = "idle" ELSE pc[v] = "idle"]
    /\ pre' = [v \in Workers |->
                 IF v = w
                 THEN (IF \A x \in Workers \ {w} : pc[x] = "idle" THEN Items(cache) ELSE {})
                 ELSE {}]
    /\ pc' = [pc EXCEPT ![w] = "swept"]
    /\ UNCHANGED <<clock, ticks, cache, req, iter, expired, entry, resp, ids, delivered>>
    /\ UNCHANGED tvars

\* A request reaches thread w.  Every handler begins with
\* _cleanup_expired_cache(), whose first statement reads the clock.
\* History: a thread is alone while the other threads are idle; the threads
\* that are running when w starts are alone no more.
Start(w) ==
    /\ Quiet
    /\ pc[w] = "idle"
    /\ now' = [now EXCEPT ![w] = clock]
    /\ alone' = [v \in Workers |->
                   IF v = w THEN \A x \in Workers \ {w} : pc[x] = "idle" ELSE pc[v] = "idle"]
    /\ pre' = [v \in Workers |->
                 IF v = w
                 THEN (IF \A x \in Workers \ {w} : pc[x] = "idle" THEN Items(cache) ELSE {})
                 ELSE {}]
    /\ pc' = [pc EXCEPT ![w] = "L46"]
    /\ UNCHANGED <<clock, ticks, cache, req, iter, expired, entry, resp, ids, delivered>>
    /\ UNCHANGED tvars

\* The list comprehension of _cleanup_expired_cache creates its iterator.
MakeIter(w) ==
    /\ Quiet
    /\ pc[w] = "L46"
    /\ iter' = [iter EXCEPT ![w] = NewIter(cache)]
    /\ expired' = [expired EXCEPT ![w] = <<>>]
    /\ pc' = [pc EXCEPT ![w] = "L46next"]
    /\ UNCHANGED <<clock, ticks, cache, req, now, entry, resp, ids, delivered, alone, pre>>
    /\ UNCHANGED tvars

\* A sweep that lists the expired keys and pops none.
AfterScanPopsNothing(xs) == "swept"

\* Where the handler stands once the list xs is all that is left to pop.
AfterScan(xs) == IF xs = <<>> THEN "swept" ELSE "L47"

\* `now` once the list xs is all that is left to pop: the local is gone when
\* _cleanup_expired_cache returns.  History: a thread that is alone keeps it.
NowAfterScan(w, xs) ==
    [now EXCEPT ![w] = IF xs = <<>> /\ ~alone[w] THEN 0 ELSE now[w]]

\* One step of the list comprehension: next(it), then the filter.  A
\* RuntimeError leaves the handler, which has used nothing of the request yet:
\* Flask answers 500.
SweepNext(w) ==
    /\ Quiet
    /\ pc[w] = "L46next"
    /\ IF IterRaises(cache, iter[w])
       THEN /\ resp' = [resp EXCEPT ![w] = ServerError("RuntimeError", clock)]
            /\ pc' = [pc EXCEPT ![w] = "done"]
            /\ iter' = [iter EXCEPT ![w] = NoIter]
            /\ expired' = [expired EXCEPT ![w] = <<>>]
            /\ now' = NowAfterScan(w, <<>>)
       ELSE /\ UNCHANGED resp
            /\ IF NextLive(cache, iter[w]) = 0
               THEN /\ pc' = [pc EXCEPT ![w] = AfterScan(expired[w])]
                    /\ iter' = [iter EXCEPT ![w] = NoIter]
                    /\ now' = NowAfterScan(w, expired[w])
                    /\ UNCHANGED expired
               ELSE /\ iter' = [iter EXCEPT ![w] = [used |-> iter[w].used,
                                                     pos |-> NextLive(cache, iter[w]),
                                                     len |-> iter[w].len - 1]]
                    /\ expired' = [expired EXCEPT ![w] =
                          IF SweepExpired(cache[NextLive(cache, iter[w])].val.expiry, now[w])
                          THEN Append(expired[w], cache[NextLive(cache, iter[w])].key)
                          ELSE expired[w]]
                    /\ UNCHANGED <<pc, now>>
    /\ UNCHANGED <<clock, ticks, cache, req, entry, ids, delivered, alone, pre>>
    /\ UNCHANGED tvars

\* One turn of `for k in expired: app.download_cache.pop(k, None)`.
SweepPop(w) ==
    /\ Quiet
    /\ pc[w] = "L47"
    /\ cache' = DictPop(cache, Head(expired[w]))
    /\ expired' = [expired EXCEPT ![w] = Tail(expired[w])]
    /\ pc' = [pc EXCEPT ![w] = AfterScan(Tail(expired[w]))]
    /\ now' = NowAfterScan(w, Tail(expired[w]))
    /\ UNCHANGED <<clock, ticks, req, iter, entry, resp, ids, delivered, alone, pre>>
    /\ UNCHANGED tvars

\* index(): the page is rendered.
Render(w) ==
    /\ Quiet
    /\ pc[w] = "swept"
    /\ req' = [req EXCEPT ![w] = IndexRequest]
    /\ resp' = [resp EXCEPT ![w] = Page(clock)]
    /\ pc' = [pc EXCEPT ![w] = "done"]
    /\ UNCHANGED <<clock, ticks, cache, now, iter, expired, entry, ids, delivered, alone, pre>>
    /\ UNCHANGED tvars

\* The value compress_image stores for the upload u at time t.
NewValue(u, t) ==
    [bytes |-> Encode(u.image, OutFormat(u)),
     mimetype |-> Mimetype(_safe_output_extension(OutFormat(u))),
     filename |-> Filename(_safe_output_extension(OutFormat(u))),
     expiry |-> ExpiryFromNow(t)]

\* _generate_download_id(): uuid4 draws the id at random; nothing compares it
\* with the keys the cache holds or has held.
_generate_download_id(used) == Ids

\* compress_image() after the sweep, on the upload u.  Reading the body,
\* checking it and encoding the image touch nothing shared: the request is
\* turned down with a message, or the encoded image is stored under a new id.
Compress(w, u) ==
    /\ Quiet
    /\ pc[w] = "swept"
    /\ req' = [req EXCEPT ![w] = CompressRequest(u)]
    /\ pc' = [pc EXCEPT ![w] = "done"]
    /\ IF CompressFailure(u) # ""
       THEN /\ resp' = [resp EXCEPT ![w] = Redirect(CompressFailure(u), clock)]
            /\ UNCHANGED <<cache, ids>>
       ELSE /\ Len(ids) < MaxInserts
            /\ \E id \in _generate_download_id(ids) :
                  /\ cache' = DictSet(cache, id, NewValue(u, clock), Len(ids) + 1, clock)
                  /\ ids' = Append(ids, id)
                  /\ resp' = [resp EXCEPT ![w] =
                        Result(id, Len(ids) + 1,
                               Filename(_safe_output_extension(OutFormat(u))), clock)]
    /\ UNCHANGED <<clock, ticks, now, iter, expired, entry, delivered, alone, pre>>
    /\ UNCHANGED tvars

\* download_image(id) after the sweep:
\* entry = app.download_cache.pop(download_id, None), and the answer when
\* there is none.
Pop(w, id) ==
    /\ Quiet
    /\ pc[w] = "swept"
    /\ req' = [req EXCEPT ![w] = DownloadRequest(id)]
    /\ IF DictIndex(cache, id) = 0
       THEN /\ resp' = [resp EXCEPT ![w] =
                  Redirect("Download is no longer available or has expired.", clock)]
            /\ pc' = [pc EXCEPT ![w] = "done"]
            /\ UNCHANGED <<cache, entry>>
       ELSE /\ entry' = [entry EXCEPT ![w] = cache[DictIndex(cache, id)]]
            /\ cache' = DictPop(cache, id)
            /\ pc' = [pc EXCEPT ![w] = "L221"]
            /\ UNCHANGED resp
    /\ UNCHANGED <<clock, ticks, now, iter, expired, ids, delivered, alone, pre>>
    /\ UNCHANGED tvars

\* download_image(): the expiry check on the popped entry, and the answer.
Check(w) ==
    /\ Quiet
    /\ pc[w] = "L221"
    /\ IF PopExpired(entry[w].val.expiry, clock)
       THEN /\ resp' = [resp EXCEPT ![w] = Expired(entry[w], clock)]
            /\ UNCHANGED delivered
       ELSE /\ resp' = [resp EXCEPT ![w] = File(entry[w], clock)]
            /\ delivered' = [delivered EXCEPT ![entry[w].ser] = @ + 1]
    /\ entry' = [entry EXCEPT ![w] = EmptySlot]
    /\ pc' = [pc EXCEPT ![w] = "done"]
    /\ UNCHANGED <<clock, ticks, cache, req, now, iter, expired, ids, alone, pre>>
    /\ UNCHANGED tvars

\* The response has gone out; the thread waits for its next request.
Return(w) ==
    /\ pc[w] = "done"
    /\ pc' = [pc EXCEPT ![w] = "idle"]
    /\ req' = [req EXCEPT ![w] = NoRequest]
    /\ resp' = [resp EXCEPT ![w] = NoResponse]
    /\ now' = [now EXCEPT ![w] = 0]
    /\ alone' = [alone EXCEPT ![w] = TRUE]
    /\ pre' = [pre EXCEPT ![w] = {}]
    /\ UNCHANGED <<clock, ticks, cache, iter, expired, entry, ids, delivered>>
    /\ UNCHANGED tvars

\* Time passes.
Tick ==
    /\ Quiet
    /\ ticks < MaxTicks
    /\ \E d \in TickSteps : clock' = clock + d
    /\ ticks' = ticks + 1
    /\ UNCHANGED <<cache, pc, req, now, iter, expired, entry, resp, ids, delivered, alone, pre>>
    /\ UNCHANGED tvars

Next ==
    \/ \E w \in Workers : Start(w)
    \/ \E w \in Workers : MakeIter(w)
    \/ \E w \in Workers : SweepNext(w)
    \/ \E w \in Workers : SweepPop(w)
    \/ \E w \in Workers : Render(w)
    \/ \E w \in Workers, u \in Uploads : Compress(w, u)
    \/ \E w \in Workers, id \in Ids : Pop(w, id)
    \/ \E w \in Workers : Check(w)
    \/ \E w \in Workers : Return(w)
    \/ Tick

Spec == Init /\ [][Next]_vars

\* ------------------------------------ compress_image, one call in detail
\* Lines 103-177 of compress_image work on the request and on locals alone.
\* TranscodeSpec runs one call through them step by step, each step drawing
\* what it reads of the request; the threads stay idle.

svars == <<clock, ticks, cache, pc, req, now, iter, expired, entry, resp,
           ids, delivered, alone, pre>>

\* The request is turned down at `line` with `message`.
Rejects(message, line) ==
    /\ loc' = [loc EXCEPT !.flash = message, !.line = line]
    /\ tpc' = "rejected"

\* out_format and its check.
ReadFormat ==
    /\ tpc = "L103"
    /\ \E f \in FormFormats :
          /\ form' = [form EXCEPT !.format = f]
          /\ IF OutFormat([format |-> f]) \notin ALLOWED_OUTPUT_FORMATS
             THEN Rejects("Unsupported output format selected.", 106)
             ELSE /\ loc' = [loc EXCEPT !.out_format = OutFormat([format |-> f])]
                  /\ tpc' = "L108"
    /\ UNCHANGED svars

\* quality: parsed, defaulted, clamped.
ReadQuality ==
    /\ tpc = "L108"
    /\ \E field \in QualityFields :
          /\ form' = [form EXCEPT !.quality = field]
          /\ loc' = [loc EXCEPT !.quality = Clamp(ParseQuality(field))]
    /\ tpc' = "L116"
    /\ UNCHANGED svars

\* orig_size_kb: the size of the stream, 0.0 when seek or tell raises.
Measure ==
    /\ tpc = "L116"
    /\ \E seekable \in BOOLEAN, size \in 0..MaxBytes :
          /\ form' = [form EXCEPT !.seekable = seekable, !.size = size]
          /\ loc' = [loc EXCEPT !.orig_size = IF seekable THEN size ELSE 0]
    /\ tpc' = "L128"
    /\ UNCHANGED svars

\* Image.open, verify, and the second Image.open: an empty upload is no
\* image (the other ways to fail are those of CompressFailure).
Open ==
    /\ tpc = "L128"
    /\ IF form.size = 0
       THEN /\ Rejects("Uploaded file is not a valid image.", 133)
            /\ UNCHANGED form
       ELSE \E mode \in Modes :
               /\ form' = [form EXCEPT !.mode = mode]
               /\ loc' = [loc EXCEPT !.mode = mode]
               /\ tpc' = "L146"
    /\ UNCHANGED svars

\* if img.mode in ("RGBA", "P") and out_format != "PNG": img = img.convert("RGB")
Convert ==
    /\ tpc = "L146"
    /\ loc' = [loc EXCEPT !.mode =
                  IF loc.mode \in {"RGBA", "P"} /\ loc.out_format # "PNG" THEN "RGB" ELSE loc.mode]
    /\ tpc' = "L151"
    /\ UNCHANGED <<form, svars>>

\* save_kwargs: quality for JPEG and WEBP, compress_level for PNG.
SaveKwargs ==
    /\ tpc = "L151"
    /\ loc' = [loc EXCEPT
                  !.save_quality = IF loc.out_format \in {"JPEG", "WEBP"} THEN loc.quality ELSE 0,
                  !.compress_level = IF loc.out_format = "PNG" THEN CompressLevel(loc.quality) ELSE -1]
    /\ tpc' = "L164"
    /\ UNCHANGED <<form, svars>>

\* img.save(img_io, **save_kwargs): Pillow's JPEG encoder refuses a mode with
\* an alpha channel; its PNG and WEBP encoders write the alpha channel of the
\* image they are given.  The encoded image has at least one byte.
Save ==
    /\ tpc = "L164"
    /\ IF loc.out_format = "JPEG" /\ HasAlpha(loc.mode)
       THEN Rejects("Error saving compressed image", 168)
       ELSE \E size \in 1..MaxBytes :
               /\ loc' = [loc EXCEPT !.compressed_size = size, !.alpha = HasAlpha(loc.mode)]
               /\ tpc' = "L170"
    /\ UNCHANGED <<form, svars>>

\* compression_percent; a ZeroDivisionError would leave the handler.
Percent ==
    /\ tpc = "L170"
    /\ loc' = [loc EXCEPT !.percent = CompressionPercent(loc.orig_size, loc.compressed_size)]
    /\ tpc' = IF CompressionPercent(loc.orig_size, loc.compressed_size).ok THEN "L180" ELSE "error500"
    /\ UNCHANGED <<form, svars>>

TranscodeInit ==
    /\ clock = 0
    /\ ticks = 0
    /\ cache = <<>>
    /\ pc = [w \in Workers |-> "idle"]
    /\ req = [w \in Workers |-> NoRequest]
    /\ now = [w \in Workers |-> 0]
    /\ iter = [w \in Workers |-> NoIter]
    /\ expired = [w \in Workers |-> <<>>]
    /\ entry = [w \in Workers |-> EmptySlot]
    /\ resp = [w \in Workers |-> NoResponse]
    /\ ids = <<>>
    /\ delivered = [s \in 1..MaxInserts |-> 0]
    /\ alone = [w \in Workers |-> TRUE]
    /\ pre = [w \in Workers |-> {}]
    /\ form = NoForm
    /\ tpc = "L103"
    /\ loc = NoLocals

TranscodeNext ==
    \/ ReadFormat
    \/ ReadQuality
    \/ Measure
    \/ Open
    \/ Convert
    \/ SaveKwargs
    \/ Save
    \/ Percent

TranscodeSpec == TranscodeInit /\ [][TranscodeNext]_vars

\* ------------------------------------------------------------------ claims

Done(w) == pc[w] = "done"

Serials == 1..Len(ids)

\* C1: every entry of the cache is returned by at most one /download, however
\* the downloads, uploads and sweeps of the threads interleave.
C1_AtMostOnceDelivery == \A s \in 1..MaxInserts : delivered[s] <= 1

\* An entry has been returned once, and a later download of its id has ended
\* without a payload.
C1_Witness ==
    \E w \in Workers, s \in Serials :
        /\ delivered[s] = 1
        /\ \A t \in Serials : ids[t] = ids[s] => t = s
        /\ Done(w)
        /\ req[w] = DownloadRequest(ids[s])
        /\ resp[w].kind = "redirect"

\* C2: of two successive downloads of an id, the first returns the entry and
\* the second the not-found outcome, whatever requests come in between.  So a
\* download that begins after another download of its id has returned a
\* payload returns none.
C2_SecondDownloadFindsNothing ==
    \A w \in Workers :
        (/\ Done(w)
         /\ alone[w]
         /\ req[w].route = "download"
         /\ \E s \in Serials :
               ids[s] = req[w].id /\ delivered[s] >= 1 /\ s # resp[w].ser)
        => resp[w].kind # "file"

\* C3: a download whose clock reads are later than the insertion time of an
\* entry plus the TTL never returns that entry.
C3_NoPayloadAfterTtl ==
    \A w \in Workers :
        (Done(w) /\ resp[w].kind = "file")
        => ~(resp[w].at > resp[w].insertedAt + DOWNLOAD_CACHE_TTL_SECONDS)

\* A download has popped an entry later than its insertion time plus the TTL
\* (no sweep had removed it) and has answered that it expired.
C3_Witness ==
    \E w \in Workers :
        /\ Done(w)
        /\ req[w].route = "download"
        /\ resp[w].kind = "redirect"
        /\ resp[w].ser # 0
        /\ resp[w].at > resp[w].insertedAt + DOWNLOAD_CACHE_TTL_SECONDS

\* The uploads the claims call failing: no file part, empty filename,
\* unsupported format, an image that fails validation, cannot be reopened or
\* cannot be encoded, a request larger than the maximum.
Rejected(u) ==
    \/ ~u.hasFile
    \/ u.filename = ""
    \/ (u.format # "" /\ Upper(u.format) \notin {"JPEG", "PNG", "WEBP"})

Aborted(u) == u.image \in {"unidentified", "corrupt", "unopenable", "unsavable"}

TooLarge(u) == u.length > 10 * 1024 * 1024

\* C4: a /compress that fails at any step inserts no entry and produces no
\* download id.
C4_FailedCompressInsertsNothing ==
    \A w \in Workers :
        (/\ Done(w)
         /\ req[w].route = "compress"
         /\ (Rejected(req[w].upload) \/ Aborted(req[w].upload) \/ TooLarge(req[w].upload)))
        => /\ resp[w].kind = "redirect"
           /\ resp[w].id = NoId
           /\ alone[w] => Items(cache) \subseteq pre[w]

\* An upload that is not an image has been turned down while the cache holds
\* an entry.
C4_Witness ==
    \E w \in Workers :
        /\ Done(w)
        /\ req[w].route = "compress"
        /\ req[w].upload.image = "unidentified"
        /\ resp[w].kind = "redirect"
        /\ Items(cache) # {}

\* C5: a download answers an id that is absent and an id whose entry has
\* expired at pop time in the same way.
C5_MissesAreAlike ==
    \A w \in Workers :
        (Done(w) /\ req[w].route = "download" /\ resp[w].kind # "file")
        => /\ resp[w].kind = "redirect"
           /\ resp[w].flash = "Download is no longer available or has expired."

\* C6: a sweep that interleaves with the inserts and pops of other threads
\* completes without raising an error.
C6_SweepNeverRaises == \A w \in Workers : resp[w].kind # "error500"

\* C7: the id an entry is stored under differs from the id of every entry
\* stored earlier in the run.
C7_IdsAreFresh == \A s, t \in Serials : ids[s] = ids[t] => s = t

\* C8: a sweep that runs with no concurrent operation removes exactly the
\* entries whose expiry <= its now: what is left is what was there with
\* expiry > now, unchanged.
C8_SweepRemovesExactlyExpired ==
    \A w \in Workers :
        (pc[w] = "swept" /\ alone[w])
        => Items(cache) = {e \in pre[w] : e.val.expiry > now[w]}

\* A sweep has removed an entry whose expiry equals its now and has kept an
\* entry that expires later.
C8_Witness ==
    \E w \in Workers :
        /\ pc[w] = "swept"
        /\ alone[w]
        /\ \E e \in pre[w] : e.val.expiry = now[w] /\ e \notin Items(cache)
        /\ \E e \in pre[w] : e.val.expiry > now[w] /\ e \in Items(cache)

\* C9, as stated: a /compress that is rejected or aborts leaves the cache as
\* it was before the request.
C9_FailedCompressLeavesCacheAsItWas ==
    \A w \in Workers :
        (/\ Done(w)
         /\ alone[w]
         /\ req[w].route = "compress"
         /\ (Rejected(req[w].upload) \/ Aborted(req[w].upload)))
        => Items(cache) = pre[w]

\* C9, amended: a /compress that is rejected or aborts inserts nothing and
\* removes only what its sweep removes, the entries whose expiry <= the
\* sweep's now; every other entry is there as before.
C9_FailedCompressOnlySweeps ==
    \A w \in Workers :
        (/\ Done(w)
         /\ alone[w]
         /\ req[w].route = "compress"
         /\ (Rejected(req[w].upload) \/ Aborted(req[w].upload)))
        => Items(cache) = {e \in pre[w] : e.val.expiry > now[w]}

\* A /compress with an unsupported format has been turned down after its
\* sweep removed an expired entry.
C9_Witness ==
    \E w \in Workers :
        /\ Done(w)
        /\ alone[w]
        /\ req[w].route = "compress"
        /\ Rejected(req[w].upload)
        /\ req[w].upload.hasFile
        /\ req[w].upload.filename # ""
        /\ \E e \in pre[w] : e \notin Items(cache)

\* The entries a thread can see: those of the cache and the one it has popped.
Held == Items(cache) \cup {entry[w] : w \in {v \in Workers : entry[v].live}}

\* C10: an entry keeps the payload, mime type, filename and expiry it was
\* stored with, and its expiry is its insertion time plus 300 s.
C10_EntriesNeverChange ==
    \A e \in Held : e.val = e.orig /\ e.val.expiry = e.at + 300

\* An entry is still in the cache after the clock has advanced and another
\* entry has been downloaded.
C10_Witness ==
    \E w \in Workers, e \in Items(cache) :
        /\ Done(w)
        /\ resp[w].kind = "file"
        /\ clock > e.at

\* ------------------------------------------ claims on compress_image's steps

\* The call has gone past line N.
Past(lines) == tpc \notin ({"off", "rejected", "error500"} \cup lines)

\* C11: whatever the quality field (absent, text, any integer), the quality
\* used is in 1..100: the integer itself when it is in 1..100, 1 below, 100
\* above, and 40 for text or no field; clamping it again changes nothing, and
\* the field never turns the request down.
C11_QualityIsClamped ==
    form.quality # NoField =>
        /\ tpc \notin {"L103", "L108", "error500"}
        /\ tpc = "rejected" => loc.line > 114
        /\ loc.quality \in 1..100
        /\ form.quality.kind = "int" =>
              loc.quality = (IF form.quality.n < 1 THEN 1
                             ELSE IF form.quality.n > 100 THEN 100
                             ELSE form.quality.n)
        /\ form.quality.kind # "int" => loc.quality = 40
        /\ Clamp(loc.quality) = loc.quality
        /\ Clamp(Clamp(ParseQuality(form.quality))) = Clamp(ParseQuality(form.quality))

\* C12: for PNG output and every quality q in 1..100, the compress level is
\* the integer nearest to (100 - q) / (100/9), it lies in 0..9 (0 for q = 100,
\* 9 for q = 1), and a higher quality never gets a higher level.
C12_PngLevel ==
    (loc.out_format = "PNG" /\ Past({"L103", "L108", "L116", "L128", "L146", "L151"})) =>
        /\ loc.compress_level \in 0..9
        /\ 100 * loc.compress_level - 9 * (100 - loc.quality) \in -50..50
        /\ loc.quality = 100 => loc.compress_level = 0
        /\ loc.quality = 1 => loc.compress_level = 9
        /\ \A q \in 1..100 :
              /\ q > loc.quality => CompressLevel(q) <= loc.compress_level
              /\ q < loc.quality => CompressLevel(q) >= loc.compress_level

\* A PNG is about to be saved at quality 1 with level 9.
C12_Witness ==
    /\ tpc = "L164"
    /\ loc.out_format = "PNG"
    /\ loc.quality = 1
    /\ loc.compress_level = 9

\* C13: for every source mode, PNG output is never flattened and keeps the
\* alpha channel of the input; for JPEG and WEBP output the image that reaches
\* the encoder has no alpha channel, and neither has the output.
C13_AlphaHandling ==
    tpc \in {"L164", "L170", "L180"} =>
        /\ loc.out_format = "PNG" =>
              /\ loc.mode = form.mode
              /\ tpc # "L164" => loc.alpha = HasAlpha(form.mode)
        /\ loc.out_format \in {"JPEG", "WEBP"} =>
              /\ ~HasAlpha(loc.mode)
              /\ ~loc.alpha

\* C15: when the measured original size is 0 the percent is 0 and nothing is
\* divided (no ZeroDivisionError leaves the handler); otherwise the percent is
\* 100 * (original - compressed) / original, also when the compressed image
\* is the larger one.
C15_CompressionPercent ==
    /\ tpc # "error500"
    /\ tpc = "L180" =>
          /\ loc.orig_size = 0 => loc.percent = [ok |-> TRUE, num |-> 0, den |-> 1]
          /\ loc.orig_size > 0 =>
                /\ loc.percent.ok
                /\ loc.percent.den # 0
                /\ loc.percent.num * loc.orig_size
                      = 100 * (loc.orig_size - loc.compressed_size) * loc.percent.den

\* The size of the upload could not be measured, and the percent is 0.
C15_Witness ==
    /\ tpc = "L180"
    /\ ~form.seekable
    /\ loc.orig_size = 0
    /\ loc.compressed_size > 0
    /\ loc.percent.num = 0

\* ------------------------------------------- one thread, every output format
\* SerialSpec: the server with a single request thread, whose uploads are
\* valid images in each of the output formats.

SerialWorkers == {"w1"}

FormatUploads == {Upload(TRUE, "in.png", f, "valid", 2048) : f \in {"", "jpeg", "PNG", "webp"}}

SerialNext ==
    \/ \E w \in SerialWorkers : Start(w)
    \/ \E w \in SerialWorkers : MakeIter(w)
    \/ \E w \in SerialWorkers : SweepNext(w)
    \/ \E w \in SerialWorkers : SweepPop(w)
    \/ \E w \in SerialWorkers : Render(w)
    \/ \E w \in SerialWorkers, u \in FormatUploads : Compress(w, u)
    \/ \E w \in SerialWorkers, id \in Ids : Pop(w, id)
    \/ \E w \in SerialWorkers : Check(w)
    \/ \E w \in SerialWorkers : Return(w)
    \/ Tick

SerialSpec == Init /\ [][SerialNext]_vars

\* The step of thread w that answers a download with a file.
SendsFile(w) == pc[w] = "L221" /\ pc'[w] = "done" /\ resp'[w].kind = "file"

\* C14: a download that hits answers with the entry stored under the id it
\* asked for, as it was inserted: the same bytes, the mime type of the output
\* format (JPEG image/jpeg, PNG image/png, WEBP image/webp) and the filename
\* compressed.jpg, compressed.png or compressed.webp.
C14_DownloadCarriesStoredEntry ==
    [][\A w \in Workers :
          SendsFile(w) =>
              /\ entry[w].key = req[w].id
              /\ resp'[w].bytes = entry[w].orig.bytes
              /\ resp'[w].mimetype = entry[w].orig.mimetype
              /\ resp'[w].filename = entry[w].orig.filename
              /\ <<resp'[w].bytes[2], resp'[w].mimetype, resp'[w].filename>>
                    \in {<<"JPEG", "image/jpeg", "compressed.jpg">>,
                         <<"PNG", "image/png", "compressed.png">>,
                         <<"WEBP", "image/webp", "compressed.webp">>}]_vars

\* A WEBP entry has been downloaded while the cache holds an entry of another
\* format.
C14_Witness ==
    \E w \in Workers :
        /\ Done(w)
        /\ resp[w].kind = "file"
        /\ resp[w].mimetype = "image/webp"
        /\ \E e \in Items(cache) : e.val.mimetype # "image/webp"

\* ---------------------------------------------------- claims on the order

\* Thread w ends the scan of its sweep, having popped all it listed.
SweepEnds(w) ==
    /\ pc[w] \in {"L46next", "L47"}
    /\ pc'[w] = "swept"
    /\ iter'[w] = NoIter
    /\ expired'[w] = <<>>

\* Thread w uses its request, touches the cache outside the sweep, or answers
\* other than with the 500 of an exception.
UsesRequest(w) == req'[w] # req[w] /\ req'[w] # NoRequest

TouchesCache(w) ==
    \/ entry'[w] # entry[w]
    \/ (cache' # cache /\ pc'[w] # pc[w] /\ pc[w] # "L47")

Answers(w) == resp'[w] # resp[w] /\ resp'[w].kind \in {"redirect", "page", "result", "file"}

\* C16: in every request, on every path, the sweep has run to its end before
\* the handler reads or writes the cache for anything else, looks at its
\* request, or returns an outcome.
C16_SweepFirst ==
    [][\A w \in Workers :
          /\ pc[w] = "idle" => pc'[w] \in {"idle", "L46"}
          /\ pc[w] \in {"L46", "L46next", "L47"} =>
                pc'[w] \in {"L46", "L46next", "L47", "swept"} \/ resp'[w].kind = "error500"
          /\ (pc'[w] = "swept" /\ pc[w] # "swept") => SweepEnds(w)
          /\ (UsesRequest(w) \/ TouchesCache(w) \/ Answers(w)) => pc[w] \in {"swept", "L221"}
          /\ pc'[w] = "L221" => pc[w] \in {"swept", "L221"}]_vars

\* A request that is too large has been turned down, after its sweep removed
\* an expired entry.
C16_Witness ==
    \E w \in Workers :
        /\ Done(w)
        /\ alone[w]
        /\ req[w].route = "compress"
        /\ req[w].upload.length > MAX_CONTENT_LENGTH
        /\ resp[w].kind = "redirect"
        /\ \E e \in pre[w] : e.val.expiry <= now[w] /\ e \notin Items(cache)

\* ------------------------------------------------------------- fairness
\* Requests keep arriving, and the interpreter keeps running every thread:
\* a step of a handler that stays possible is taken.

\* The step of thread w after its sweep, whatever its route and request.
Handle(w) ==
    \/ Render(w)
    \/ \E u \in Uploads : Compress(w, u)
    \/ \E id \in Ids : Pop(w, id)

Fairness ==
    \A w \in Workers :
        /\ WF_vars(Start(w))
        /\ WF_vars(MakeIter(w))
        /\ WF_vars(SweepNext(w))
        /\ WF_vars(SweepPop(w))
        /\ WF_vars(Handle(w))
        /\ WF_vars(Check(w))
        /\ WF_vars(Return(w))

FairSpec == Init /\ [][Next]_vars /\ Fairness

\* The cache holds the entry of insertion s; its expiry has passed.
InCache(s) == \E e \in Items(cache) : e.ser = s

ExpiredInCache(s) == \E e \in Items(cache) : e.ser = s /\ e.val.expiry <= clock

\* C17: while requests keep arriving, an entry that is in the cache when its
\* expiry passes is removed in the end; and an entry leaves the cache only in
\* a step of a request (a sweep's pop, a download's pop, a store under its
\* id), never by the passing of time alone.
C17_EventuallyRemoved ==
    /\ \A s \in 1..MaxInserts : ExpiredInCache(s) ~> ~InCache(s)
    /\ [][\A s \in 1..MaxInserts :
             (InCache(s) /\ ~InCache(s)') =>
                 \E w \in Workers : pc[w] \in {"L47", "swept"} /\ pc'[w] \in {"L47", "swept", "L221", "done"}
                                    /\ clock' = clock]_vars

\* An entry stayed in the cache past its expiry, until the sweep of a later
\* request removed it.
C17_Witness ==
    \E w \in Workers :
        /\ pc[w] = "swept"
        /\ alone[w]
        /\ \E e \in pre[w] : e.val.expiry < now[w] /\ ~InCache(e.ser)

\* ------------------------------------------------------ claims on the frame

\* C18: a download of id X, hit or miss, removes only the entry of X and the
\* entries whose expiry <= its now; every other entry is there afterwards as
\* it was, and nothing is added.  A GET / removes only the entries whose
\* expiry <= its now.  (The request runs with no other thread active.)
C18_DownloadFrame ==
    \A w \in Workers :
        /\ (alone[w] /\ req[w].route = "download" /\ pc[w] \in {"L221", "done"}) =>
              Items(cache) = {e \in pre[w] : e.val.expiry > now[w] /\ e.key # req[w].id}
        /\ (alone[w] /\ req[w].route = "index" /\ pc[w] = "done") =>
              Items(cache) = {e \in pre[w] : e.val.expiry > now[w]}

\* A download has returned the entry of its id, and the other entry of the
\* cache, not expired, is still there.
C18_Witness ==
    \E w \in Workers :
        /\ Done(w)
        /\ alone[w]
        /\ req[w].route = "download"
        /\ resp[w].kind = "file"
        /\ \E e \in pre[w] : e.key # req[w].id /\ e \in Items(cache)

====
